---- MODULE Spec2Model ----
(***************************************************************************)
(* Model of src/automation.ts: a linear Playwright script.  `run` opens a  *)
(* browser session, calls five stages in sequence, logs a diagnostic when  *)
(* anything throws and closes the browser in its finally block.            *)
(*                                                                         *)
(* Every `await` of the source is a suspension point of the model: a       *)
(* primitive is invoked (Invoke), time may pass while it is pending        *)
(* (Tick), and the browser library settles it by resolving (Resolve),      *)
(* rejecting (Reject) or, for the one wait with an explicit timeout,       *)
(* rejecting at the deadline (TimeoutFire).                                *)
(***************************************************************************)
EXTENDS Naturals, Sequences, FiniteSets, TLC

VARIABLES
    env,        \* process.env after dotenv.config(): name -> [set, val]
    config,     \* the five module constants resolved from env
    pc,         \* position of the run
    stage,      \* index of the stage being executed (0 = bootstrap in run)
    ip,         \* index of the next primitive in the current body
    awaiting,   \* a primitive has been invoked and is not settled yet
    elapsed,    \* milliseconds the pending primitive has been waited for
    browser,    \* the `browser` variable of run is defined
    closeCalls, \* number of invocations of browser.close()
    out,        \* console output, in order: [stream, text]
    trace,      \* history of the run: calls, primitives, logs, returns, throws
    cause,      \* message of the error raised by the failing primitive
    err,        \* message of the error in flight or caught
    status,     \* what page.textContent returned in verifyCompletion
    result      \* settlement of the promise returned by run()

vars == <<env, config, pc, stage, ip, awaiting, elapsed, browser, closeCalls,
          out, trace, cause, err, status, result>>

-----------------------------------------------------------------------------
(* Bounds of the model *)

\* granularity of the clock, in milliseconds
TickMs == 1000
\* longest time the model lets a primitive without timeout stay pending
MaxWaitMs == 7000

(* Inputs *)

Unset == [set |-> FALSE, val |-> ""]
SetTo(v) == [set |-> TRUE, val |-> v]

EnvNames == {"CAMUNDA_URL", "USERNAME", "PASSWORD", "PROCESS_NAME", "REST_URL"}

EnvChoices(n) ==
    CASE n = "CAMUNDA_URL"  -> {Unset, SetTo("http://camunda")}
      [] n = "USERNAME"     -> {Unset, SetTo("demo")}
      [] n = "PASSWORD"     -> {Unset, SetTo("secret")}
      [] n = "PROCESS_NAME" -> {Unset, SetTo(""), SetTo("Order")}
      [] n = "REST_URL"     -> {Unset, SetTo(""), SetTo("http://rest/api")}

\* messages of the errors the browser library may raise
Msgs == {"timeout", "Target closed", ""}

\* what page.textContent may return: a string or null
Null == [isNull |-> TRUE, text |-> ""]
Text(s) == [isNull |-> FALSE, text |-> s]
NotRead == [isNull |-> TRUE, text |-> "<not read>"]
StatusValues ==
    {Text("Completed"), Text("Running"), Text(""), Text("Incomplete"),
     Text("completed"), Text("Failed"), Null}

NoError == "<none>"

-----------------------------------------------------------------------------
(* Configuration, lines 7-11 *)

\* mutant of OrDefault: `??` instead of `||`, only undefined falls back
OrDefaultNullish(e, dflt) == IF e.set THEN e.val ELSE dflt

\* JavaScript `process.env.X || dflt`: undefined and '' are both falsy
OrDefault(e, dflt) == IF e.set /\ e.val # "" THEN e.val ELSE dflt

\* mutant of LoadConfig: PROCESS_NAME is read from the variable USERNAME
LoadConfigWrongKey(e) ==
    [CAMUNDA_URL  |-> OrDefault(e["CAMUNDA_URL"], ""),
     USERNAME     |-> OrDefault(e["USERNAME"], ""),
     PASSWORD     |-> OrDefault(e["PASSWORD"], ""),
     PROCESS_NAME |-> OrDefault(e["USERNAME"], "Test Process"),
     REST_URL     |-> OrDefault(e["REST_URL"], "https://api.example.com/data")]

LoadConfig(e) ==
    [CAMUNDA_URL  |-> OrDefault(e["CAMUNDA_URL"], ""),
     USERNAME     |-> OrDefault(e["USERNAME"], ""),
     PASSWORD     |-> OrDefault(e["PASSWORD"], ""),
     PROCESS_NAME |-> OrDefault(e["PROCESS_NAME"], "Test Process"),
     REST_URL     |-> OrDefault(e["REST_URL"], "https://api.example.com/data")]

-----------------------------------------------------------------------------
(* The awaited primitives of each function, in source order *)

\* a primitive called without a timeout option
Prim(op, sel, arg) ==
    [op |-> op, sel |-> sel, arg |-> arg, bounded |-> FALSE, timeout |-> 0]

\* a primitive called with { timeout: t }
PrimTimeout(op, sel, arg, t) ==
    [op |-> op, sel |-> sel, arg |-> arg, bounded |-> TRUE, timeout |-> t]

\* { timeout: 5000 } of the wait for input#rest-url
RestUrlTimeoutMs == 5000

StageNames ==
    <<"login", "navigateToModeler", "createProcess", "runProcessInstance",
      "verifyCompletion">>

NumStages == Len(StageNames)

BootstrapBody ==
    <<Prim("chromium.launch", "", "headless: false"),
      Prim("browser.newContext", "", ""),
      Prim("context.newPage", "", "")>>

LoginBody(cfg) ==
    <<Prim("page.goto", "", cfg.CAMUNDA_URL \o "/login"),
      Prim("page.fill", "input[name=\"username\"]", cfg.USERNAME),
      Prim("page.press", "input[name=\"username\"]", "Enter"),
      Prim("page.fill", "input[name=\"password\"]", cfg.PASSWORD),
      Prim("page.press", "input[name=\"password\"]", "Enter"),
      Prim("page.waitForNavigation", "", "")>>

NavigateToModelerBody(cfg) ==
    <<Prim("page.goto", "", cfg.CAMUNDA_URL),
      Prim("page.waitForSelector", "button >> text=Create process", "")>>

\* mutant of CreateProcessBody: the process is saved before the connector
CreateProcessBodySaveFirst(cfg) ==
    <<Prim("page.click", "button >> text=Create process", ""),
      Prim("page.fill", "input#process-name", cfg.PROCESS_NAME),
      Prim("page.click", "button >> text=Create", ""),
      Prim("page.click", "button >> text=Add Connector", ""),
      PrimTimeout("page.waitForSelector", "input#rest-url", "", RestUrlTimeoutMs),
      Prim("restUrlInput.fill", "input#rest-url", cfg.REST_URL),
      Prim("page.click", "button >> text=Save", ""),
      Prim("page.click", "button >> text=Save Connector", "")>>

\* mutant of CreateProcessBody: the wait for input#rest-url has no timeout
CreateProcessBodyUnboundedWait(cfg) ==
    <<Prim("page.click", "button >> text=Create process", ""),
      Prim("page.fill", "input#process-name", cfg.PROCESS_NAME),
      Prim("page.click", "button >> text=Create", ""),
      Prim("page.click", "button >> text=Add Connector", ""),
      Prim("page.waitForSelector", "input#rest-url", ""),
      Prim("restUrlInput.fill", "input#rest-url", cfg.REST_URL),
      Prim("page.click", "button >> text=Save Connector", ""),
      Prim("page.click", "button >> text=Save", "")>>

CreateProcessBody(cfg) ==
    <<Prim("page.click", "button >> text=Create process", ""),
      Prim("page.fill", "input#process-name", cfg.PROCESS_NAME),
      Prim("page.click", "button >> text=Create", ""),
      Prim("page.click", "button >> text=Add Connector", ""),
      PrimTimeout("page.waitForSelector", "input#rest-url", "", RestUrlTimeoutMs),
      Prim("restUrlInput.fill", "input#rest-url", cfg.REST_URL),
      Prim("page.click", "button >> text=Save Connector", ""),
      Prim("page.click", "button >> text=Save", "")>>

RunProcessInstanceBody(cfg) ==
    <<Prim("page.goto", "", cfg.CAMUNDA_URL \o "/run"),
      Prim("page.click", "button >> text=Run instance", ""),
      Prim("page.click", "button#operate-sidebar-toggle", ""),
      Prim("page.waitForSelector", "a#operate-link", ""),
      Prim("operateLink.click", "a#operate-link", ""),
      Prim("page.waitForSelector", "select#process-name", ""),
      Prim("processNameDropdown.selectOption", "select#process-name",
           cfg.PROCESS_NAME),
      Prim("page.click", "button >> text=Start instance", "")>>

CompletionStatusCellSelector(cfg) ==
    "tr[id=\"process-row-" \o cfg.PROCESS_NAME \o "\"]"
        \o " td[id=\"completion-status\"]"

VerifyCompletionBody(cfg) ==
    <<Prim("page.click", "button#operate-sidebar-toggle", ""),
      Prim("page.waitForSelector", "a#operate-link", ""),
      Prim("operateLink.click", "a#operate-link", ""),
      Prim("page.fill", "input#process-search", cfg.PROCESS_NAME),
      Prim("page.click", "button >> text=Search", ""),
      Prim("page.waitForSelector", CompletionStatusCellSelector(cfg), ""),
      Prim("page.textContent", CompletionStatusCellSelector(cfg), "")>>

Body(s, cfg) ==
    CASE s = 0 -> BootstrapBody
      [] s = 1 -> LoginBody(cfg)
      [] s = 2 -> NavigateToModelerBody(cfg)
      [] s = 3 -> CreateProcessBody(cfg)
      [] s = 4 -> RunProcessInstanceBody(cfg)
      [] s = 5 -> VerifyCompletionBody(cfg)

\* the function a primitive is awaited in
FnName(s) == IF s = 0 THEN "run" ELSE StageNames[s]

CloseStep == Prim("browser.close", "", "")

-----------------------------------------------------------------------------
(* Error translation and console lines *)

\* the literal each stage's catch block puts before the original message
WrapLabel(s) ==
    CASE s = 1 -> "Login failed: "
      [] s = 2 -> "Navigation to Web Modeler failed: "
      [] s = 3 -> "Process creation failed: "
      [] s = 4 -> "Running process instance failed: "
      [] s = 5 -> "Verification of process completion failed: "

\* mutant of Wrap: the catch block throws the original error again
WrapRaw(s, m) == m

\* mutant of Wrap: every catch block carries the label of login
WrapAsLogin(s, m) == WrapLabel(1) \o m

\* throw new Error('<label>' + (error as Error).message)
Wrap(s, m) == WrapLabel(s) \o m

\* mutant of IsCompleted: the comparison ignores case
IsCompletedIgnoreCase(st) == ~st.isNull /\ st.text \in {"Completed", "completed"}

\* completionStatus === 'Completed'
IsCompleted(st) == ~st.isNull /\ st.text = "Completed"

\* mutant of StageLine: the verdict of verifyCompletion is inverted
StageLineInverted(s, cfg, st) ==
    CASE s = 1 -> "Logged in successfully"
      [] s = 2 -> "Navigated to Web Modeler"
      [] s = 3 -> "Process \"" \o cfg.PROCESS_NAME \o "\" created successfully"
      [] s = 4 -> "Process instance of \"" \o cfg.PROCESS_NAME
                      \o "\" started successfully"
      [] s = 5 -> IF ~IsCompleted(st)
                  THEN "Process instance of \"" \o cfg.PROCESS_NAME
                           \o "\" completed successfully"
                  ELSE "Process instance of \"" \o cfg.PROCESS_NAME
                           \o "\" did not complete"

\* the line a stage logs when all its primitives resolved
StageLine(s, cfg, st) ==
    CASE s = 1 -> "Logged in successfully"
      [] s = 2 -> "Navigated to Web Modeler"
      [] s = 3 -> "Process \"" \o cfg.PROCESS_NAME \o "\" created successfully"
      [] s = 4 -> "Process instance of \"" \o cfg.PROCESS_NAME
                      \o "\" started successfully"
      [] s = 5 -> IF IsCompleted(st)
                  THEN "Process instance of \"" \o cfg.PROCESS_NAME
                           \o "\" completed successfully"
                  ELSE "Process instance of \"" \o cfg.PROCESS_NAME
                           \o "\" did not complete"

\* mutant of DiagnosticLine: the message is left out
DiagnosticLineNoMessage(m) == "An error occurred:"

\* console.error('An error occurred:', message): arguments joined by a space
DiagnosticLine(m) == "An error occurred:" \o " " \o m

\* message of the error the library raises when a bounded wait expires
TimeoutMsg == "Timeout 5000ms exceeded."

(* History records *)

Ev(kind, fn, what, sel, arg) ==
    [kind |-> kind, fn |-> fn, what |-> what, sel |-> sel, arg |-> arg]

CallEv(fn, step) == Ev("call", fn, step.op, step.sel, step.arg)

-----------------------------------------------------------------------------
(* State machine *)

Resolved == [state |-> "resolved", reason |-> NoError]
Rejected(m) == [state |-> "rejected", reason |-> m]
Pending == [state |-> "pending", reason |-> NoError]

Init ==
    /\ env \in {e \in [EnvNames -> {Unset, SetTo(""), SetTo("http://camunda"),
                                     SetTo("demo"), SetTo("secret"),
                                     SetTo("Order"), SetTo("http://rest/api")}] :
                  \A n \in EnvNames : e[n] \in EnvChoices(n)}
    /\ config = LoadConfig(env)
    /\ pc = "start"
    /\ stage = 0
    /\ ip = 1
    /\ awaiting = FALSE
    /\ elapsed = 0
    /\ browser = FALSE
    /\ closeCalls = 0
    /\ out = <<>>
    /\ trace = <<>>
    /\ cause = NoError
    /\ err = NoError
    /\ status = NotRead
    /\ result = Pending

\* how an async function settles once its last block completed: a pending
\* throw that no catch block handled rejects the promise
Completion(e) == IF e = NoError THEN Resolved ELSE Rejected(e)

\* the primitive at the current position
CurStep == IF pc = "closing" THEN CloseStep ELSE Body(stage, config)[ip]

\* line 160: run() is called; it enters its try block
Run ==
    /\ pc = "start"
    /\ pc' = "body"
    /\ trace' = Append(trace, Ev("start", "run", "", "", ""))
    /\ UNCHANGED <<env, config, stage, ip, awaiting, elapsed, browser,
                   closeCalls, out, cause, err, status, result>>

\* the next `await <primitive>` of the current function is reached
Invoke ==
    /\ pc = "body"
    /\ ~awaiting
    /\ ip <= Len(Body(stage, config))
    /\ awaiting' = TRUE
    /\ elapsed' = 0
    /\ trace' = Append(trace, CallEv(FnName(stage), CurStep))
    /\ UNCHANGED <<env, config, pc, stage, ip, browser, closeCalls, out,
                   cause, err, status, result>>

\* time passes while a primitive is pending
Tick ==
    /\ pc \in {"body", "closing"}
    /\ awaiting
    /\ IF CurStep.bounded THEN elapsed < CurStep.timeout
                          ELSE elapsed < MaxWaitMs
    /\ elapsed' = elapsed + TickMs
    /\ UNCHANGED <<env, config, pc, stage, ip, awaiting, browser, closeCalls,
                   out, trace, cause, err, status, result>>

\* a pending primitive may still settle: its timeout, if any, has not expired
MaySettle == awaiting /\ (CurStep.bounded => elapsed < CurStep.timeout)

\* the pending primitive resolves and the function continues
Resolve ==
    /\ pc = "body"
    /\ MaySettle
    /\ awaiting' = FALSE
    /\ elapsed' = 0
    /\ ip' = ip + 1
    /\ browser' = IF CurStep.op = "chromium.launch" THEN TRUE ELSE browser
    /\ IF CurStep.op = "page.textContent"
       THEN \E st \in StatusValues : status' = st
       ELSE status' = status
    /\ pc' = IF stage = 0 /\ ip = Len(BootstrapBody) THEN "run" ELSE "body"
    /\ UNCHANGED <<env, config, stage, closeCalls, out, trace, cause, err,
                   result>>

\* mutant of Raise: the rejection is recorded and the function goes on with
\* its next primitive
RaiseSkip(m) ==
    /\ awaiting' = FALSE
    /\ elapsed' = 0
    /\ cause' = m
    /\ ip' = ip + 1
    /\ trace' = Append(trace, Ev("reject", FnName(stage), CurStep.op,
                                 CurStep.sel, m))
    /\ UNCHANGED <<env, config, pc, stage, browser, closeCalls, out, err,
                   status, result>>

\* mutant of Raise: the rejected primitive is awaited again
RaiseRetry(m) ==
    /\ awaiting' = FALSE
    /\ elapsed' = 0
    /\ trace' = Append(trace, Ev("reject", FnName(stage), CurStep.op,
                                 CurStep.sel, m))
    /\ UNCHANGED <<env, config, pc, stage, ip, browser, closeCalls, out,
                   cause, err, status, result>>

\* control leaves the try block of the current function with error m
Raise(m) ==
    /\ awaiting' = FALSE
    /\ elapsed' = 0
    /\ cause' = m
    /\ err' = m
    /\ trace' = Append(trace, Ev("reject", FnName(stage), CurStep.op,
                                 CurStep.sel, m))
    /\ pc' = IF stage = 0 THEN "runCatch" ELSE "stageCatch"
    /\ UNCHANGED <<env, config, stage, ip, browser, closeCalls, out, status,
                   result>>

\* the pending primitive rejects
Reject ==
    /\ pc = "body"
    /\ MaySettle
    /\ \E m \in Msgs : Raise(m)

\* the timeout given to the pending primitive expires
TimeoutFire ==
    /\ pc = "body"
    /\ awaiting
    /\ CurStep.bounded
    /\ elapsed >= CurStep.timeout
    /\ Raise(TimeoutMsg)

\* mutant of StageSucceed: verifyCompletion throws when the status read is
\* not 'Completed'
StageSucceedStrict ==
    /\ pc = "body"
    /\ stage >= 1
    /\ ~awaiting
    /\ ip > Len(Body(stage, config))
    /\ IF stage = NumStages /\ ~IsCompleted(status)
       THEN /\ cause' = "did not complete"
            /\ err' = "did not complete"
            /\ trace' = Append(trace, Ev("reject", FnName(stage), "", "",
                                         "did not complete"))
            /\ pc' = "stageCatch"
            /\ out' = out
       ELSE /\ out' = Append(out, [stream |-> "stdout",
                                   text |-> StageLine(stage, config, status)])
            /\ trace' = trace \o
                  <<Ev("log", FnName(stage), "stdout", "",
                       StageLine(stage, config, status)),
                    Ev("return", FnName(stage), "", "", "")>>
            /\ pc' = "run"
            /\ UNCHANGED <<cause, err>>
    /\ UNCHANGED <<env, config, stage, ip, awaiting, elapsed, browser,
                   closeCalls, status, result>>

\* all primitives of a stage resolved: it logs its line and returns
StageSucceed ==
    /\ pc = "body"
    /\ stage >= 1
    /\ ~awaiting
    /\ ip > Len(Body(stage, config))
    /\ out' = Append(out, [stream |-> "stdout",
                           text |-> StageLine(stage, config, status)])
    /\ trace' = trace \o
          <<Ev("log", FnName(stage), "stdout", "",
               StageLine(stage, config, status)),
            Ev("return", FnName(stage), "", "", "")>>
    /\ pc' = "run"
    /\ UNCHANGED <<env, config, stage, ip, awaiting, elapsed, browser,
                   closeCalls, cause, err, status, result>>

\* lines 20-24: run calls the next stage function
CallStage ==
    /\ pc = "run"
    /\ stage < NumStages
    /\ stage' = stage + 1
    /\ ip' = 1
    /\ pc' = "body"
    /\ trace' = Append(trace, Ev("start", FnName(stage + 1), "", "", ""))
    /\ UNCHANGED <<env, config, awaiting, elapsed, browser, closeCalls, out,
                   cause, err, status, result>>

\* the try block of run completes after the last stage
TryDone ==
    /\ pc = "run"
    /\ stage = NumStages
    /\ pc' = "finally"
    /\ UNCHANGED <<env, config, stage, ip, awaiting, elapsed, browser,
                   closeCalls, out, trace, cause, err, status, result>>

\* mutant of StageCatch: the catch block swallows the error and returns
StageCatchSwallow ==
    /\ pc = "stageCatch"
    /\ err' = NoError
    /\ trace' = Append(trace, Ev("return", FnName(stage), "", "", ""))
    /\ pc' = "run"
    /\ UNCHANGED <<env, config, stage, ip, awaiting, elapsed, browser,
                   closeCalls, out, cause, status, result>>

\* the catch block of a stage: throw the wrapped error
StageCatch ==
    /\ pc = "stageCatch"
    /\ err' = Wrap(stage, err)
    /\ trace' = Append(trace, Ev("throw", FnName(stage), "", "",
                                 Wrap(stage, err)))
    /\ pc' = "runCatch"
    /\ UNCHANGED <<env, config, stage, ip, awaiting, elapsed, browser,
                   closeCalls, out, cause, status, result>>

\* mutant of RunCatch: the error is logged and thrown again
RunCatchRethrow ==
    /\ pc = "runCatch"
    /\ out' = Append(out, [stream |-> "stderr", text |-> DiagnosticLine(err)])
    /\ trace' = Append(trace, Ev("log", "run", "stderr", "",
                                 DiagnosticLine(err)))
    /\ pc' = "finally"
    /\ UNCHANGED <<env, config, stage, ip, awaiting, elapsed, browser,
                   closeCalls, cause, err, status, result>>

\* mutant of RunCatch: the catch covers the failing call only and run goes on
RunCatchContinue ==
    /\ pc = "runCatch"
    /\ out' = Append(out, [stream |-> "stderr", text |-> DiagnosticLine(err)])
    /\ trace' = Append(trace, Ev("log", "run", "stderr", "",
                                 DiagnosticLine(err)))
    /\ err' = NoError
    /\ pc' = "run"
    /\ UNCHANGED <<env, config, stage, ip, awaiting, elapsed, browser,
                   closeCalls, cause, status, result>>

\* lines 26-28: the catch block of run logs the diagnostic
RunCatch ==
    /\ pc = "runCatch"
    /\ out' = Append(out, [stream |-> "stderr", text |-> DiagnosticLine(err)])
    /\ trace' = Append(trace, Ev("log", "run", "stderr", "",
                                 DiagnosticLine(err)))
    /\ err' = NoError
    /\ pc' = "finally"
    /\ UNCHANGED <<env, config, stage, ip, awaiting, elapsed, browser,
                   closeCalls, cause, status, result>>

\* mutant of ShouldClose: the finally block never closes the browser
ShouldCloseNever == FALSE

\* mutant of ShouldClose: the browser is closed on the success path only
ShouldCloseOnSuccessOnly == browser /\ cause = NoError

\* line 29: if (browser)
ShouldClose == browser

\* mutant of Finally: browser.close() is called but not awaited
FinallyNoAwait ==
    /\ pc = "finally"
    /\ IF ShouldClose
       THEN /\ closeCalls' = closeCalls + 1
            /\ trace' = Append(trace, CallEv("run", CloseStep))
            /\ awaiting' = TRUE
       ELSE /\ trace' = Append(trace, Ev("return", "run", "", "", ""))
            /\ UNCHANGED <<closeCalls, awaiting>>
    /\ pc' = "done"
    /\ result' = Completion(err)
    /\ UNCHANGED <<env, config, stage, ip, elapsed, browser, out, cause, err,
                   status>>

\* lines 28-32: finally { if (browser) await browser.close() }
Finally ==
    /\ pc = "finally"
    /\ IF ShouldClose
       THEN /\ closeCalls' = closeCalls + 1
            /\ trace' = Append(trace, CallEv("run", CloseStep))
            /\ awaiting' = TRUE
            /\ elapsed' = 0
            /\ pc' = "closing"
            /\ result' = result
       ELSE /\ pc' = "done"
            /\ result' = Completion(err)
            /\ trace' = Append(trace, Ev("return", "run", "", "", ""))
            /\ UNCHANGED <<closeCalls, awaiting, elapsed>>
    /\ UNCHANGED <<env, config, stage, ip, browser, out, cause, err, status>>

\* browser.close() resolves and run returns
CloseResolve ==
    /\ pc = "closing"
    /\ awaiting
    /\ awaiting' = FALSE
    /\ elapsed' = 0
    /\ pc' = "done"
    /\ result' = Completion(err)
    /\ trace' = Append(trace, Ev("return", "run", "", "", ""))
    /\ UNCHANGED <<env, config, stage, ip, browser, closeCalls, out, cause,
                   err, status>>

\* browser.close() rejects inside finally: the error leaves run uncaught
CloseReject ==
    /\ pc = "closing"
    /\ awaiting
    /\ \E m \in Msgs :
          /\ result' = Rejected(m)
          /\ trace' = Append(trace, Ev("throw", "run", "", "", m))
    /\ awaiting' = FALSE
    /\ elapsed' = 0
    /\ pc' = "done"
    /\ UNCHANGED <<env, config, stage, ip, browser, closeCalls, out, cause,
                   err, status>>

Next ==
    \/ Run
    \/ Invoke
    \/ Tick
    \/ Resolve
    \/ Reject
    \/ TimeoutFire
    \/ StageSucceed
    \/ CallStage
    \/ TryDone
    \/ StageCatch
    \/ RunCatch
    \/ Finally
    \/ CloseResolve
    \/ CloseReject

Spec == Init /\ [][Next]_vars

\* the event loop: time passes while a primitive is pending, and the timer
\* of a wait that was given a timeout fires when it expires
FairSpec == Spec /\ WF_vars(Tick) /\ WF_vars(TimeoutFire)

\* the steps the script takes by itself
Step ==
    \/ Run
    \/ Invoke
    \/ StageSucceed
    \/ CallStage
    \/ TryDone
    \/ StageCatch
    \/ RunCatch
    \/ Finally

\* the browser library settles the pending primitive
Settle ==
    \/ Resolve
    \/ Reject
    \/ TimeoutFire
    \/ CloseResolve
    \/ CloseReject

\* the script runs whenever it can, and every primitive eventually returns
\* or throws
SettlingSpec == Spec /\ WF_vars(Step) /\ WF_vars(Settle)

\* the script runs whenever it can, time passes and timers fire, but the
\* library need not settle a primitive that was given no timeout
UnsettledSpec ==
    Spec /\ WF_vars(Step) /\ WF_vars(Tick) /\ WF_vars(TimeoutFire)

TypeOK ==
    /\ pc \in {"start", "body", "run", "stageCatch", "runCatch", "finally",
               "closing", "done"}
    /\ stage \in 0..NumStages
    /\ awaiting \in BOOLEAN
    /\ browser \in BOOLEAN
    /\ closeCalls \in 0..1
    /\ result.state \in {"pending", "resolved", "rejected"}

-----------------------------------------------------------------------------
(* Vocabulary of the properties *)

\* positions of the history with a given kind of record
Positions(kind) == {i \in DOMAIN trace : trace[i].kind = kind}

\* positions at which a stage function was called
StageStarts == {i \in Positions("start") : trace[i].fn # "run"}

\* names of the stage functions called, in call order
StartedStages ==
    LET IsStageStart(e) == e.kind = "start" /\ e.fn # "run"
        starts == SelectSeq(trace, IsStageStart)
    IN  [i \in DOMAIN starts |-> starts[i].fn]

\* positions at which browser.close() was invoked
ClosePositions ==
    {i \in Positions("call") : trace[i].what = "browser.close"}

\* a primitive awaited inside stage k rejected
StageFailed(k) ==
    \E i \in Positions("reject") : trace[i].fn = StageNames[k]

\* chromium.launch, browser.newContext or context.newPage rejected
BootstrapFailed ==
    \E i \in Positions("reject") : trace[i].fn = "run"

\* chromium.launch itself rejected: no browser object exists
LaunchFailed ==
    \E i \in Positions("reject") : trace[i].what = "chromium.launch"

AnyStageFailed == \E k \in 1..NumStages : StageFailed(k)

\* the stage prefixes as the specification words them
Prefix(fn) ==
    CASE fn = "login"              -> "Login failed"
      [] fn = "navigateToModeler"  -> "Navigation to Web Modeler failed"
      [] fn = "createProcess"      -> "Process creation failed"
      [] fn = "runProcessInstance" -> "Running process instance failed"
      [] fn = "verifyCompletion"   ->
             "Verification of process completion failed"

Stdout(t) == [stream |-> "stdout", text |-> t]
Stderr(t) == [stream |-> "stderr", text |-> t]

\* the lines the specification expects of stages 1..4 and of the two
\* verdicts of stage 5
LoginLine == "Logged in successfully"
NavigateLine == "Navigated to Web Modeler"
CreatedLine == "Process \"" \o config.PROCESS_NAME \o "\" created successfully"
StartedLine ==
    "Process instance of \"" \o config.PROCESS_NAME \o "\" started successfully"
CompletedLine ==
    "Process instance of \"" \o config.PROCESS_NAME
        \o "\" completed successfully"
NotCompletedLine ==
    "Process instance of \"" \o config.PROCESS_NAME \o "\" did not complete"

FirstFourLines ==
    <<Stdout(LoginLine), Stdout(NavigateLine), Stdout(CreatedLine),
      Stdout(StartedLine)>>

-----------------------------------------------------------------------------
(* C1 *)

\* C1 as stated: in every finished run (all stages succeed, one stage
\* fails, or bootstrap fails) browser.close was invoked exactly once.
\* Refuted by a run in which chromium.launch rejects: `browser` stays
\* undefined and the finally block skips the close.
C1_Original == pc = "done" => closeCalls = 1

\* C1 amended: browser.close is never invoked more than once; a finished run
\* invoked it exactly once when chromium.launch resolved (all stages
\* succeeded, a stage failed, or newContext/newPage rejected) and not at all
\* when chromium.launch itself rejected.
C1_ReleasedOncePerLaunchedBrowser ==
    /\ closeCalls <= 1
    /\ Cardinality(ClosePositions) = closeCalls
    /\ pc = "done" => closeCalls = (IF LaunchFailed THEN 0 ELSE 1)

\* a finished run whose bootstrap failed after the launch, closed once
C1_Witness ==
    /\ pc = "done"
    /\ BootstrapFailed
    /\ ~LaunchFailed
    /\ closeCalls = 1

-----------------------------------------------------------------------------
(* C2 *)

\* C2: stage functions are called in the order of StageNames, each at most
\* once; login is called only after the three bootstrap primitives, every
\* later stage only after the previous stage returned; once a primitive of
\* stage k rejected no stage after k is called, the run goes on to the
\* release and a finished run has released the session.
C2_FixedOrderStopOnFailure ==
    /\ Len(StartedStages) <= NumStages
    /\ \A i \in DOMAIN StartedStages : StartedStages[i] = StageNames[i]
    /\ \A p \in StageStarts :
          IF trace[p].fn = StageNames[1]
          THEN /\ p = Len(BootstrapBody) + 2
               /\ \A j \in 1..Len(BootstrapBody) :
                     /\ trace[j + 1].kind = "call"
                     /\ trace[j + 1].what = BootstrapBody[j].op
          ELSE /\ trace[p - 1].kind = "return"
               /\ \E k \in 2..NumStages :
                     /\ trace[p].fn = StageNames[k]
                     /\ trace[p - 1].fn = StageNames[k - 1]
    /\ \A k \in 1..NumStages :
          StageFailed(k) =>
             /\ Len(StartedStages) = k
             /\ pc \in {"stageCatch", "runCatch", "finally", "closing", "done"}
             /\ pc \in {"closing", "done"} => closeCalls = 1

\* a finished run in which createProcess failed: three stages were called
\* and the session was released
C2_Witness ==
    /\ pc = "done"
    /\ StageFailed(3)
    /\ StartedStages = <<"login", "navigateToModeler", "createProcess">>
    /\ closeCalls = 1

-----------------------------------------------------------------------------
(* C3 *)

\* C3: whenever a stage throws, the message of the thrown error is the
\* prefix of that stage, ': ' and the message of the primitive that failed,
\* and the throwing stage is the one in which that primitive was awaited.
C3_WrappedMessage ==
    \A i \in Positions("throw") :
       trace[i].fn # "run" =>
          /\ trace[i].arg = Prefix(trace[i].fn) \o ": " \o trace[i - 1].arg
          /\ trace[i - 1].kind = "reject"
          /\ trace[i - 1].fn = trace[i].fn
          /\ trace[i - 1].arg = cause
          /\ trace[i].fn = StageNames[stage]

\* verifyCompletion threw the wrapped form of "timeout"
C3_Witness ==
    \E i \in Positions("throw") :
       /\ trace[i].fn = "verifyCompletion"
       /\ cause = "timeout"
       /\ trace[i].arg = "Verification of process completion failed: timeout"

-----------------------------------------------------------------------------
(* C4 *)

VerdictLines == {Stdout(CompletedLine), Stdout(NotCompletedLine)}

\* C4: once verifyCompletion has read the status text and gone on, exactly
\* one of the two verdict lines is on the console: the 'completed
\* successfully' line when the text is exactly 'Completed', the 'did not
\* complete' line for every other value; no verdict line is logged when the
\* status was not read.
C4_ExactMatchClassification ==
    LET verdicts == {i \in DOMAIN out : out[i] \in VerdictLines}
    IN  IF status # NotRead /\ pc # "body"
        THEN /\ Cardinality(verdicts) = 1
             /\ \A i \in verdicts :
                   out[i] = IF status = Text("Completed")
                            THEN Stdout(CompletedLine)
                            ELSE Stdout(NotCompletedLine)
        ELSE verdicts = {}

\* the lowercase near miss was read and reported as not completed
C4_Witness ==
    /\ status = Text("completed")
    /\ \E i \in DOMAIN out : out[i] = Stdout(NotCompletedLine)

-----------------------------------------------------------------------------
(* C5 *)

\* C5 as stated: a finished run in which a stage threw has completed
\* normally (its promise resolved).  Refuted by a run in which a stage
\* fails and browser.close() then rejects inside the finally block: that
\* rejection is not caught and run rejects.
C5_Original == (pc = "done" /\ AnyStageFailed) => result = Resolved

\* what browser.close() did in a finished run
CloseRejected == trace[Len(trace)].kind = "throw" /\ trace[Len(trace)].fn = "run"

\* C5 amended: when a stage throws, run catches the error, logs it, does not
\* re-throw it and proceeds to cleanup; the stage error never leaves run.
\* The settlement of run depends on browser.close() alone: run resolves when
\* close resolves (or no browser exists) and rejects with the error of close
\* when close rejects, the same for a run in which a stage failed as for a
\* run in which every stage succeeded.
C5_StageErrorNeverLeavesRun ==
    /\ pc \in {"finally", "closing", "done"} => err = NoError
    /\ pc # "done" => result = Pending
    /\ pc = "done" =>
          /\ result = IF CloseRejected
                       THEN Rejected(trace[Len(trace)].arg)
                       ELSE Resolved
          /\ CloseRejected => closeCalls = 1
          /\ AnyStageFailed => \E i \in DOMAIN out : out[i].stream = "stderr"

\* a finished run in which a stage failed and run resolved
C5_Witness ==
    /\ pc = "done"
    /\ AnyStageFailed
    /\ result = Resolved

-----------------------------------------------------------------------------
(* C6 *)

\* no primitive rejected, the status read is 'Completed' and the try block
\* of run is over
HappyRun ==
    /\ cause = NoError
    /\ status = Text("Completed")
    /\ pc \in {"finally", "closing", "done"}

\* C6: when every primitive resolves and the status text is 'Completed',
\* the five stages were called in order, the console holds exactly the five
\* success lines in stage order and no diagnostic line, and browser.close
\* is invoked exactly once, after the fifth line.
C6_HappyPath ==
    HappyRun =>
       /\ StartedStages = StageNames
       /\ out = FirstFourLines \o <<Stdout(CompletedLine)>>
       /\ Cardinality(Positions("log")) = NumStages
       /\ pc \in {"closing", "done"} =>
             /\ closeCalls = 1
             /\ Cardinality(ClosePositions) = 1
             /\ \A c \in ClosePositions : \A i \in Positions("log") : i < c

\* a finished happy run with its five lines and one release
C6_Witness ==
    /\ HappyRun
    /\ pc = "done"
    /\ Len(out) = 5
    /\ closeCalls = 1

-----------------------------------------------------------------------------
(* C7 *)

DiagnosticPositions == {i \in DOMAIN out : out[i].stream = "stderr"}

\* C7: when stage k fails the console holds exactly the success lines of
\* stages 1..k-1 in stage order, followed, once the catch block of run has
\* run, by the single line 'An error occurred: <stage prefix>: <message>';
\* no run logs more than one diagnostic line.
C7_FailureOutput ==
    /\ Cardinality(DiagnosticPositions) <= 1
    /\ \A k \in 1..NumStages :
          StageFailed(k) =>
             out = SubSeq(FirstFourLines, 1, k - 1) \o
                   (IF pc \in {"stageCatch", "runCatch"}
                    THEN <<>>
                    ELSE <<Stderr("An error occurred: "
                                  \o Prefix(StageNames[k]) \o ": " \o cause)>>)

\* a finished run in which runProcessInstance failed: three success lines
\* and the diagnostic
C7_Witness ==
    /\ pc = "done"
    /\ StageFailed(4)
    /\ Len(out) = 4
    /\ out[4].stream = "stderr"

-----------------------------------------------------------------------------
(* C8 *)

\* C8: when browser.close is invoked every stage that was called has
\* returned or thrown; after the invocation nothing happens but the
\* settlement of run; run settles only after close has settled.
C8_ReleaseLast ==
    /\ \A c \in ClosePositions :
          /\ \A p \in StageStarts :
                /\ p < c
                /\ \E q \in (p + 1)..(c - 1) :
                      /\ trace[q].fn = trace[p].fn
                      /\ trace[q].kind \in {"return", "throw"}
          /\ \A i \in (c + 1)..Len(trace) :
                /\ i = Len(trace)
                /\ trace[i].fn = "run"
                /\ trace[i].kind \in {"return", "throw"}
    /\ closeCalls > 0 => pc \in {"closing", "done"}
    /\ pc = "closing" => awaiting /\ result = Pending
    /\ result # Pending =>
          /\ pc = "done"
          /\ ~awaiting
          /\ browser => closeCalls = 1

\* a settled run in which navigateToModeler failed and the session was
\* released
C8_Witness ==
    /\ result # Pending
    /\ StageFailed(2)
    /\ closeCalls = 1

-----------------------------------------------------------------------------
(* C9 *)

\* C9: when chromium.launch, browser.newContext or context.newPage rejects,
\* no stage function is ever called: the history holds no stage call and no
\* primitive of a stage, and the console no success line.
C9_NoStageAfterBootstrapFailure ==
    BootstrapFailed =>
       /\ StageStarts = {}
       /\ \A i \in DOMAIN trace : trace[i].fn = "run"
       /\ \A k \in 1..NumStages : ~StageFailed(k)
       /\ \A i \in DOMAIN out : out[i].stream = "stderr"

\* a finished run in which context.newPage rejected
C9_Witness ==
    /\ pc = "done"
    /\ \E i \in Positions("reject") : trace[i].what = "context.newPage"
    /\ StageStarts = {}

-----------------------------------------------------------------------------
(* C10 *)

\* the wait for the connector URL input is pending
AtRestUrlWait ==
    /\ pc = "body"
    /\ awaiting
    /\ CurStep.op = "page.waitForSelector"
    /\ CurStep.sel = "input#rest-url"

\* the wait for input#rest-url is never pending beyond its timeout: once the
\* timeout has elapsed it can neither resolve nor stay pending, only fail;
\* the stage then throws 'Process creation failed: ...', the connector URL
\* is never filled, and the run goes on to the diagnostic line and the
\* release.  No other primitive of any stage is given a timeout.
BoundedConnectorWait ==
    /\ (pc = "body" /\ awaiting) =>
          IF AtRestUrlWait
          THEN /\ CurStep.bounded
               /\ elapsed < RestUrlTimeoutMs + TickMs
               /\ elapsed >= RestUrlTimeoutMs =>
                     /\ ENABLED TimeoutFire
                     /\ ~ENABLED Tick
                     /\ ~ENABLED Resolve
                     /\ ~ENABLED Reject
          ELSE /\ ~CurStep.bounded
               /\ ~ENABLED TimeoutFire
    /\ cause = TimeoutMsg =>
          /\ StageFailed(3)
          /\ \A i \in Positions("call") : trace[i].what # "restUrlInput.fill"
          /\ \A i \in Positions("throw") :
                trace[i].fn # "run" =>
                   trace[i].arg = "Process creation failed: " \o TimeoutMsg
          /\ pc \in {"stageCatch", "runCatch", "finally", "closing", "done"}
          /\ pc \in {"finally", "closing", "done"} =>
                out[Len(out)] =
                   Stderr("An error occurred: Process creation failed: "
                          \o TimeoutMsg)
          /\ pc \in {"closing", "done"} => closeCalls = 1

\* C10: in createProcess the wait for the connector URL input does not hang:
\* while time passes a pending wait for input#rest-url always ends, by its
\* timeout at the latest, and BoundedConnectorWait holds throughout: the
\* timed-out stage throws 'Process creation failed: ...', the connector URL
\* is never filled, the run logs the diagnostic and releases the session,
\* and no other wait of any stage is given a timeout by the stage.
C10_FailsInsteadOfHanging ==
    /\ []BoundedConnectorWait
    /\ AtRestUrlWait ~> ~AtRestUrlWait

\* a finished run in which the wait for input#rest-url timed out
C10_Witness ==
    /\ pc = "done"
    /\ cause = TimeoutMsg
    /\ closeCalls = 1
    /\ out[Len(out)].stream = "stderr"

-----------------------------------------------------------------------------
(* C11 *)

\* verifyCompletion has read the status and gone on
StatusObserved == status # NotRead /\ pc # "body"

\* how a run ended: settlement, number of releases, diagnostic lines
RunOutcome == <<result, closeCalls, Cardinality(DiagnosticPositions)>>

\* the ways a run that read 'Completed' can end: one release, no diagnostic
\* line, and the settlement browser.close() decides
CompletedOutcomes ==
    {<<Resolved, 1, 0>>} \cup {<<Rejected(m), 1, 0>> : m \in Msgs}

\* C11: whatever status verifyCompletion read, 'Completed' or not, the
\* stage returns normally: it raises and throws nothing, no diagnostic line
\* is logged, and the run ends as a run that read 'Completed' ends, with one
\* release and the settlement that browser.close() decides.
C11_StatusIsObservational ==
    StatusObserved =>
       /\ \E i \in Positions("return") : trace[i].fn = "verifyCompletion"
       /\ \A i \in Positions("reject") \cup Positions("throw") :
             trace[i].fn = "run"
       /\ ~AnyStageFailed
       /\ cause = NoError
       /\ DiagnosticPositions = {}
       /\ pc = "done" => RunOutcome \in CompletedOutcomes
       /\ pc = "done" =>
             (result = Resolved <=> ~CloseRejected)

\* a finished run that read 'Running' and resolved after one release
C11_Witness ==
    /\ pc = "done"
    /\ status = Text("Running")
    /\ RunOutcome = <<Resolved, 1, 0>>

-----------------------------------------------------------------------------
(* C12 *)

\* positions of the history at which a primitive of function fn was invoked
CallsOf(fn) == {i \in Positions("call") : trace[i].fn = fn}

\* C12: nothing is retried: run is entered once, every stage function is
\* called at most once, every primitive of the bootstrap and of each stage
\* is invoked at most once, and after a rejection no stage is called and no
\* primitive is invoked except the one browser.close() of the release.
C12_NoRetry ==
    /\ Cardinality({i \in Positions("start") : trace[i].fn = "run"}) <= 1
    /\ \A k \in 1..NumStages :
          /\ Cardinality({i \in StageStarts : trace[i].fn = StageNames[k]}) <= 1
          /\ Cardinality(CallsOf(StageNames[k])) <= Len(Body(k, config))
    /\ Cardinality(CallsOf("run")) <= Len(BootstrapBody) + 1
    /\ \A i, j \in Positions("call") :
          (i # j /\ trace[i].fn = trace[j].fn /\ trace[i].fn = "run")
             => trace[i].what # trace[j].what
    /\ Cardinality(Positions("reject")) <= 1
    /\ \A r \in Positions("reject") : \A i \in (r + 1)..Len(trace) :
          /\ trace[i].kind # "start"
          /\ trace[i].kind = "call" => trace[i].what = "browser.close"

\* a finished run in which login failed at its first primitive: one stage
\* call, one attempt of the primitive, then the release
C12_Witness ==
    /\ pc = "done"
    /\ StageFailed(1)
    /\ Cardinality(CallsOf("login")) = 1
    /\ Cardinality(StageStarts) = 1
    /\ closeCalls = 1

-----------------------------------------------------------------------------
(* C13 *)

\* the literal defaults as the specification lists them
DefaultOf(n) ==
    CASE n = "CAMUNDA_URL"  -> ""
      [] n = "USERNAME"     -> ""
      [] n = "PASSWORD"     -> ""
      [] n = "PROCESS_NAME" -> "Test Process"
      [] n = "REST_URL"     -> "https://api.example.com/data"

\* every variable resolves to its default when unset and to its value when
\* set to a non-empty string
ResolvedAsSpecified ==
    \A n \in EnvNames :
       /\ ~env[n].set => config[n] = DefaultOf(n)
       /\ (env[n].set /\ env[n].val # "") => config[n] = env[n].val

\* C13: each of the five configuration values equals its literal default
\* when its environment variable is unset and the variable's value when it
\* is set to a non-empty string, and no step of the run changes a resolved
\* value.
C13_ConfigFallback ==
    /\ []ResolvedAsSpecified
    /\ [][config' = config]_vars

\* a finished run with PROCESS_NAME unset and REST_URL set
C13_Witness ==
    /\ pc = "done"
    /\ ~env["PROCESS_NAME"].set
    /\ config.PROCESS_NAME = "Test Process"
    /\ env["REST_URL"] = SetTo("http://rest/api")
    /\ config.REST_URL = "http://rest/api"

-----------------------------------------------------------------------------
(* C14 *)

\* the actions of createProcess as the specification orders them
CreateProcessOrder ==
    <<<<"page.click", "button >> text=Create process">>,
      <<"page.fill", "input#process-name">>,
      <<"page.click", "button >> text=Create">>,
      <<"page.click", "button >> text=Add Connector">>,
      <<"page.waitForSelector", "input#rest-url">>,
      <<"restUrlInput.fill", "input#rest-url">>,
      <<"page.click", "button >> text=Save Connector">>,
      <<"page.click", "button >> text=Save">>>>

\* the primitives createProcess has invoked so far, in order
CreateProcessCalls ==
    LET IsCall(e) == e.kind = "call" /\ e.fn = "createProcess"
        calls == SelectSeq(trace, IsCall)
    IN  [i \in DOMAIN calls |-> <<calls[i].what, calls[i].sel>>]

\* C14: the primitives createProcess invokes are always an initial part of
\* the fixed order click 'Create process', fill name, click 'Create', click
\* 'Add Connector', wait for input#rest-url, fill URL, click 'Save
\* Connector', click 'Save'; the URL is filled directly after the wait was
\* invoked and did not reject, with the configured URL, and 'Save' is
\* clicked only after 'Save Connector' was.
C14_CreateProcessOrder ==
    /\ Len(CreateProcessCalls) <= Len(CreateProcessOrder)
    /\ \A i \in DOMAIN CreateProcessCalls :
          CreateProcessCalls[i] = CreateProcessOrder[i]
    /\ \A i \in Positions("call") :
          /\ trace[i].what = "restUrlInput.fill" =>
                /\ trace[i - 1].kind = "call"
                /\ trace[i - 1].what = "page.waitForSelector"
                /\ trace[i - 1].sel = "input#rest-url"
                /\ trace[i].arg = config.REST_URL
          /\ trace[i].sel = "input#process-name" =>
                trace[i].arg = config.PROCESS_NAME
          /\ trace[i].sel = "button >> text=Save" =>
                \E j \in 1..(i - 1) :
                   /\ trace[j].kind = "call"
                   /\ trace[j].sel = "button >> text=Save Connector"

\* createProcess returned after all eight actions
C14_Witness ==
    /\ Len(CreateProcessCalls) = 8
    /\ \E i \in Positions("return") : trace[i].fn = "createProcess"

-----------------------------------------------------------------------------
(* C15 *)

\* positions of the history with a given kind of record made in function fn
In(kind, fn) == {i \in Positions(kind) : trace[i].fn = fn}

\* stage k was called and is no longer executing
StageOver(k) ==
    /\ In("start", StageNames[k]) # {}
    /\ ~(stage = k /\ pc \in {"body", "stageCatch"})

\* C15: in every stage no primitive is invoked after one of its primitives
\* rejected; a stage that is over has logged its line exactly when all its
\* primitives were invoked and none rejected, and has thrown exactly when
\* one rejected; no stage both logs its line and throws.
C15_FirstFailureAbortsStage ==
    \A k \in 1..NumStages :
       LET fn == StageNames[k]
           logged == In("log", fn) # {}
           threw == In("throw", fn) # {}
           rejected == In("reject", fn) # {}
           allInvoked == Cardinality(In("call", fn)) = Len(Body(k, config))
       IN  /\ \A r \in In("reject", fn) : \A i \in In("call", fn) : i < r
           /\ ~(logged /\ threw)
           /\ logged => (allInvoked /\ ~rejected)
           /\ threw => rejected
           /\ Cardinality(In("log", fn)) <= 1
           /\ StageOver(k) =>
                 /\ logged <=> (allInvoked /\ ~rejected)
                 /\ threw <=> rejected
                 /\ logged <=> In("return", fn) # {}

\* runProcessInstance was aborted by its fourth primitive: four calls, no
\* line, one throw
C15_Witness ==
    /\ Cardinality(In("call", "runProcessInstance")) = 4
    /\ In("reject", "runProcessInstance") # {}
    /\ In("throw", "runProcessInstance") # {}
    /\ In("log", "runProcessInstance") = {}
    /\ pc = "done"

-----------------------------------------------------------------------------
(* C17 *)

StartsWith(s, p) == Len(s) >= Len(p) /\ SubSeq(s, 1, Len(p)) = p

DiagnosticLead == "An error occurred: "

\* the message part of a diagnostic line
MessageOf(text) == SubSeq(text, Len(DiagnosticLead) + 1, Len(text))

StageThrows == {i \in Positions("throw") : trace[i].fn # "run"}

\* C17: the diagnostic line of a failed run is 'An error occurred: ' and a
\* message; when a primitive of stage k rejected, the message is the prefix
\* of stage k, ': ' and the message of that primitive, it starts with no
\* other stage's prefix and exactly one stage threw (one wrapping); when a
\* bootstrap primitive rejected, the message is the message of that
\* primitive itself, no stage threw and no stage prefix leads the message.
C17_DiagnosticIdentifiesStage ==
    \A d \in DiagnosticPositions :
       LET msg == MessageOf(out[d].text)
       IN  /\ StartsWith(out[d].text, DiagnosticLead)
           /\ BootstrapFailed \/ AnyStageFailed
           /\ \A k \in 1..NumStages :
                 StageFailed(k) =>
                    /\ msg = Prefix(StageNames[k]) \o ": " \o cause
                    /\ StartsWith(msg, Prefix(StageNames[k]))
                    /\ \A j \in 1..NumStages :
                          j # k => ~StartsWith(msg, Prefix(StageNames[j]))
                    /\ Cardinality(StageThrows) = 1
                    /\ \A i \in StageThrows : trace[i].fn = StageNames[k]
           /\ BootstrapFailed =>
                 /\ msg = cause
                 /\ StageThrows = {}
                 /\ \A j \in 1..NumStages :
                       ~StartsWith(msg, Prefix(StageNames[j]))

\* the diagnostic of a run in which navigateToModeler failed
C17_Witness ==
    /\ StageFailed(2)
    /\ \E d \in DiagnosticPositions :
          out[d].text =
             "An error occurred: Navigation to Web Modeler failed: Target closed"

-----------------------------------------------------------------------------
(* C18 *)

\* the selectors whose primitive receives the process name or the URL
ConfiguredInputs ==
    {"input#process-name", "input#rest-url", "select#process-name",
     "input#process-search"}

\* C18: a configuration variable set to the empty string resolves to its
\* default like an unset one (PROCESS_NAME to 'Test Process', REST_URL to
\* 'https://api.example.com/data'), so the process name and the connector
\* URL a stage fills in or selects are never empty.
C18_EmptyResolvesToDefault ==
    /\ \A n \in EnvNames :
          env[n] = SetTo("") => config[n] = DefaultOf(n)
    /\ env["PROCESS_NAME"] = SetTo("") => config.PROCESS_NAME = "Test Process"
    /\ env["REST_URL"] = SetTo("") =>
          config.REST_URL = "https://api.example.com/data"
    /\ config.PROCESS_NAME # ""
    /\ config.REST_URL # ""
    /\ \A i \in Positions("call") :
          (trace[i].sel \in ConfiguredInputs
              /\ trace[i].what # "page.waitForSelector")
             => trace[i].arg # ""

\* with both variables set to '' the defaults were filled in
C18_Witness ==
    /\ env["PROCESS_NAME"] = SetTo("")
    /\ env["REST_URL"] = SetTo("")
    /\ \E i \in Positions("call") :
          /\ trace[i].what = "restUrlInput.fill"
          /\ trace[i].arg = "https://api.example.com/data"
    /\ \E i \in Positions("call") :
          /\ trace[i].sel = "input#process-name"
          /\ trace[i].arg = "Test Process"

-----------------------------------------------------------------------------
(* C16 *)

\* a primitive that was given no timeout is pending
Blocked == pc \in {"body", "closing"} /\ awaiting /\ ~CurStep.bounded

\* a finished run has settled, and the browser it launched was closed once
\* and the close has settled
TerminalReleased ==
    pc = "done" =>
       /\ result # Pending
       /\ ~awaiting
       /\ closeCalls = (IF browser THEN 1 ELSE 0)

\* while a primitive without timeout is pending the script itself can take
\* no step, and inside a stage or the bootstrap the session is not released
WaitsOnLibrary ==
    Blocked =>
       /\ ~ENABLED Step
       /\ ~ENABLED TimeoutFire
       /\ pc = "body" => closeCalls = 0

\* C16: when every primitive eventually returns or throws, every run
\* reaches its end, and at its end the browser that was launched has been
\* closed; the run depends on that assumption, because while a primitive
\* without timeout is pending nothing but the library can move the run on,
\* and the session is still open.
C16_TerminatesAndReleases ==
    /\ <>(pc = "done")
    /\ []TerminalReleased
    /\ []WaitsOnLibrary

\* a finished run that read 'Failed' and closed the browser it launched
C16_Witness ==
    /\ pc = "done"
    /\ browser
    /\ closeCalls = 1
    /\ status = Text("Failed")
    /\ result # Pending

\* the run always reaches its end: true under SettlingSpec, false under
\* UnsettledSpec, where a wait without timeout may stay pending for ever
AlwaysTerminates == <>(pc = "done")

====
